---- MODULE Spec2Model ----
(***************************************************************************)
(* Alert-driven workflow orchestration of the predictive-maintenance       *)
(* platform: the alert stream and its consumer group, the MasterAgent      *)
(* loop and its public operations, the conversation manager and the slot   *)
(* scheduler.  Time is counted in hours since a Monday 00:00.              *)
(***************************************************************************)
EXTENDS Integers, Sequences, FiniteSets, TLC

VARIABLES
    now,                  \* reading of the wall clock (hours)
    ticks,                \* clock advances taken so far
    stream,               \* alerts:predicted, entry i has message id i
    lastDelivered,        \* consumer group's last-delivered id
    pending,              \* consumer group's pending entries (delivered, not acked)
    mpc,                  \* position of MasterAgent.start_listening
    batch,                \* message ids of the batch being iterated
    mcall,                \* call slot the loop is awaiting (0 = none)
    crashes,              \* crashes of the orchestrator process so far
    ctxs,                 \* every WorkflowContext object created, by identity
    active_workflows,     \* MasterAgent.active_workflows: workflow_id -> context
    convs,                \* every ConversationContext object created, by identity
    active_conversations, \* CustomerEngagementAgent.active_conversations
    calls,                \* orchestrator coroutines in flight on the actor
    appointments,         \* appointment rows of the store
    audit,                \* audit log rows of the store
    storeUp,              \* whether the store answers (reads and writes succeed)
    flips,                \* changes of storeUp so far
    transcript,           \* results process_response returned to a direct caller
    offered,              \* last answer of find_available_slots to a direct caller
    report,               \* last answer of diagnose to a direct caller
    predictions,          \* failure prediction rows of the store
    maintenance_records,  \* maintenance record rows of the store
    feedback,             \* last answer of collect_feedback to a direct caller
    buckets,              \* RateLimitMiddleware.buckets: client -> token bucket
    lclock,               \* reading of time.time() (seconds)
    responses,            \* status codes the client has received, counted by path
    telemetry,            \* telemetry stream, entry i has message id i
    tdelivered,           \* telemetry group's last-delivered id
    tpending,             \* telemetry group's pending entries
    tpc,                  \* position of TelemetryConsumer.consume_stream
    tbatch,               \* message ids of the batch being iterated
    tresults,             \* what process_telemetry returned, by message id
    alerts_out,           \* alerts stream the telemetry consumer publishes to
    tfails                \* calls to the stream server that have failed so far

vars == <<now, ticks, stream, lastDelivered, pending, mpc, batch, mcall, crashes,
          ctxs, active_workflows, convs, active_conversations, calls,
          appointments, audit, storeUp, flips, transcript, offered, report,
          predictions, maintenance_records, feedback, buckets, lclock, responses,
          telemetry, tdelivered, tpending, tpc, tbatch, tresults, alerts_out, tfails>>

streamVars == <<stream, lastDelivered, pending>>
loopVars == <<mpc, batch, mcall>>
memVars == <<ctxs, active_workflows, convs, active_conversations, calls>>
storeVars == <<appointments, audit, storeUp, flips>>
feedbackVars == <<predictions, maintenance_records, feedback>>
limiterVars == <<buckets, lclock, responses>>
telemetryVars == <<telemetry, tdelivered, tpending, tpc, tbatch, tresults, alerts_out, tfails>>
extVars == <<feedbackVars, limiterVars, telemetryVars>>

-----------------------------------------------------------------------------
(* Bounds of the model *)

MaxMsgs == 2
MaxCtx == 1
MaxBooked == 2
MaxCalls == 2
MaxTicks == 1
MaxCrashes == 1
MaxTurns == 4
MaxFlips == 1
MaxRepeat == 1
MaxDialogues == 1
MaxPredictions == 2
MaxFeedbacks == 2
MaxSeconds == 1
MaxTelemetry == 3
MaxStreamFailures == 1

-----------------------------------------------------------------------------
(* Program constants *)

ReadCount == 10
MaxSlots == 5
BusinessStart == 8
BusinessEnd == 18
MockCapacity == 10
UnclearLimit == 3
DefaultSla == 168

sla_constraints ==
    [u \in {"immediate", "urgent", "soon", "routine"} |->
        CASE u = "immediate" -> 2
          [] u = "urgent" -> 24
          [] u = "soon" -> 72
          [] OTHER -> 168]

working_days == {0, 1, 2, 3, 4}

-----------------------------------------------------------------------------
(* Data the runs are drawn from *)

\* Rows of the vehicles table: vehicle_id -> customer_id.  Vehicle 9 has no row.
VehicleOwner == (7 :> 1) @@ (8 :> 1)

\* Capacity of the service center row of the store.
CenterCapacity == 1

\* Clock readings a run may start at: Monday 09:00.
StartTimes == {9}

\* Amounts the clock may advance by between two steps.
TickSteps == {3}

\* total_estimated_downtime_hours is a random draw; these are the draws modelled.
DowntimeChoices == {2}

NoKey == 0

\* Alert payloads.  shape says what the entry decodes to: "ok", an entry whose
\* vehicle_id key is absent, or one whose failure_probability is not a number.
\* urgency is the payload's urgency key, which the producers of the repository
\* never set ("absent") and a caller of process_alert may.
Alerts ==
    { [vehicle_id |-> 7, severity |-> "critical", timestamp |-> 1, urgency |-> "absent", shape |-> "ok"],
      [vehicle_id |-> 8, severity |-> "medium", timestamp |-> 1, urgency |-> "immediate", shape |-> "ok"],
      [vehicle_id |-> 9, severity |-> "high", timestamp |-> 2, urgency |-> "absent", shape |-> "ok"],
      [vehicle_id |-> 7, severity |-> "high", timestamp |-> 3, urgency |-> "absent", shape |-> "bad_probability"],
      [vehicle_id |-> NoKey, severity |-> "low", timestamp |-> 4, urgency |-> "absent", shape |-> "no_vehicle_id"] }

\* the alerts that pass the lookup and the diagnosis
BookingAlerts == {a \in Alerts : a.shape = "ok" /\ a.vehicle_id \in DOMAIN VehicleOwner}

-----------------------------------------------------------------------------
(* Customer input.  A text is a sequence of characters. *)

acceptance_patterns ==
    << <<"y", "e", "s">>,
       <<"y", "e", "a", "h">>,
       <<"s", "u", "r", "e">>,
       <<"o", "k">>,
       <<"o", "k", "a", "y">>,
       <<"a", "c", "c", "e", "p", "t">>,
       <<"a", "g", "r", "e", "e">>,
       <<"s", "o", "u", "n", "d", "s", " ", "g", "o", "o", "d">>,
       <<"t", "h", "a", "t", " ", "w", "o", "r", "k", "s">>,
       <<"p", "e", "r", "f", "e", "c", "t">>,
       <<"c", "o", "n", "f", "i", "r", "m">> >>

decline_patterns ==
    << <<"n", "o">>,
       <<"n", "o", "p", "e">>,
       <<"n", "o", "t", " ", "n", "o", "w">>,
       <<"d", "e", "c", "l", "i", "n", "e">>,
       <<"c", "a", "n", "c", "e", "l">>,
       <<"n", "o", "t", " ", "i", "n", "t", "e", "r", "e", "s", "t", "e", "d">>,
       <<"m", "a", "y", "b", "e", " ", "l", "a", "t", "e", "r">>,
       <<"n", "o", "t", " ", "c", "o", "n", "v", "e", "n", "i", "e", "n", "t">> >>

alternative_patterns ==
    << <<"d", "i", "f", "f", "e", "r", "e", "n", "t", " ", "t", "i", "m", "e">>,
       <<"a", "n", "o", "t", "h", "e", "r", " ", "s", "l", "o", "t">>,
       <<"o", "t", "h", "e", "r", " ", "o", "p", "t", "i", "o", "n", "s">>,
       <<"d", "i", "f", "f", "e", "r", "e", "n", "t", " ", "d", "a", "y">>,
       <<"e", "a", "r", "l", "i", "e", "r">>,
       <<"l", "a", "t", "e", "r">>,
       <<"w", "e", "e", "k", "e", "n", "d">>,
       <<"w", "e", "e", "k", "d", "a", "y">> >>

info_patterns ==
    << <<"w", "h", "a", "t">>,
       <<"w", "h", "y">>,
       <<"h", "o", "w">>,
       <<"t", "e", "l", "l", " ", "m", "e", " ", "m", "o", "r", "e">>,
       <<"e", "x", "p", "l", "a", "i", "n">>,
       <<"d", "e", "t", "a", "i", "l", "s">>,
       <<"c", "o", "s", "t">>,
       <<"h", "o", "w", " ", "l", "o", "n", "g">>,
       <<"w", "a", "r", "r", "a", "n", "t", "y">> >>

human_patterns ==
    << <<"s", "p", "e", "a", "k", " ", "t", "o", " ", "s", "o", "m", "e", "o", "n", "e">>,
       <<"h", "u", "m", "a", "n">>,
       <<"p", "e", "r", "s", "o", "n">>,
       <<"r", "e", "p", "r", "e", "s", "e", "n", "t", "a", "t", "i", "v", "e">>,
       <<"a", "g", "e", "n", "t">>,
       <<"t", "a", "l", "k", " ", "t", "o">>,
       <<"t", "r", "a", "n", "s", "f", "e", "r">> >>

ordinal_words ==
    << <<"f", "i", "r", "s", "t">>,
       <<"s", "e", "c", "o", "n", "d">>,
       <<"t", "h", "i", "r", "d">> >>

affirm_words ==
    << <<"y", "e", "s">>,
       <<"s", "u", "r", "e">>,
       <<"o", "k">>,
       <<"f", "i", "r", "s", "t">> >>

option_prefix == <<"o", "p", "t", "i", "o", "n", " ">>

U_yes == <<"y", "e", "s">>
U_no == <<"n", "o">>
U_option2 == <<"o", "p", "t", "i", "o", "n", " ", "2", " ", "p", "l", "e", "a", "s", "e">>
U_yes_second == <<"y", "e", "s", " ", "t", "h", "e", " ", "s", "e", "c", "o", "n", "d">>
U_human == <<"t", "r", "a", "n", "s", "f", "e", "r", " ", "m", "e">>
U_asdf == <<"a", "s", "d", "f">>
U_more == <<"t", "e", "l", "l", " ", "m", "e", " ", "m", "o", "r", "e">>
U_alt == <<"a", "n", "o", "t", "h", "e", "r", " ", "s", "l", "o", "t">>
U_empty == <<>>

U_Yes == <<"Y", "e", "s">>
U_diffday == <<"d", "i", "f", "f", "e", "r", "e", "n", "t", " ", "d", "a", "y">>
U_no_human == <<"n", "o", ",", " ", "a", " ", "h", "u", "m", "a", "n">>
U_perfect == <<"p", "e", "r", "f", "e", "c", "t">>

Utterances == {U_yes, U_Yes, U_no, U_yes_second, U_human, U_asdf, U_more}

\* what the customers of the alerts on the stream say
LoopUtterances == {U_yes_second, U_no}

\* what the customer of a conversation held with the engagement agent says
DialogueUtterances ==
    {U_yes, U_no, U_yes_second, U_option2, U_human, U_asdf, U_more, U_diffday,
     U_no_human, U_perfect}

AllUtterances == Utterances \cup DialogueUtterances \cup {U_alt, U_empty}

\* what a customer who takes a proposed slot says
BookingUtterances == {U_yes, U_yes_second}

UpperCase ==
    <<"A", "B", "C", "D", "E", "F", "G", "H", "I", "J", "K", "L", "M",
      "N", "O", "P", "Q", "R", "S", "T", "U", "V", "W", "X", "Y", "Z">>

LowerCase ==
    <<"a", "b", "c", "d", "e", "f", "g", "h", "i", "j", "k", "l", "m",
      "n", "o", "p", "q", "r", "s", "t", "u", "v", "w", "x", "y", "z">>

LowerChar(c) ==
    IF \E i \in 1..26 : UpperCase[i] = c
    THEN LowerCase[CHOOSE i \in 1..26 : UpperCase[i] = c]
    ELSE c

\* str.lower()
Lower(s) == [i \in 1..Len(s) |-> LowerChar(s[i])]

\* p in s, for strings
Contains(s, p) ==
    \E i \in 0..(Len(s) - Len(p)) : \A j \in 1..Len(p) : s[i + j] = p[j]

\* any(pattern in s for pattern in patterns)
ContainsAny(s, patterns) == \E i \in 1..Len(patterns) : Contains(s, patterns[i])

Digits == <<"1", "2", "3", "4", "5", "6", "7", "8", "9">>

\* str(i), for the slot numbers 1..9
DecimalOf(i) == <<Digits[i]>>

-----------------------------------------------------------------------------
(* ConversationManager (CustomerEngagementAgent) *)

NoSlot == [start |-> -1, dur |-> 0, center |-> 0]

\* ConversationContext.__init__, with proposed_slots as initiate_contact sets it
NewConversation(customer_id, vehicle_id, slots) ==
    [customer_id |-> customer_id, vehicle_id |-> vehicle_id, state |-> "initiated",
     proposed_slots |-> slots, selected_slot |-> NoSlot, consent_recorded |-> FALSE,
     turn_count |-> 0]

\* _classify_response with the decline keywords checked before the others
classify_response_DeclineFirst(user_input) ==
    LET input_lower == Lower(user_input) IN
    IF ContainsAny(input_lower, decline_patterns) THEN "decline"
    ELSE IF ContainsAny(input_lower, human_patterns) THEN "request_human"
    ELSE IF ContainsAny(input_lower, acceptance_patterns) THEN "accept"
    ELSE IF ContainsAny(input_lower, alternative_patterns) THEN "request_alternative"
    ELSE IF ContainsAny(input_lower, info_patterns) THEN "request_info"
    ELSE "unclear"

classify_response(user_input) ==
    LET input_lower == Lower(user_input) IN
    IF ContainsAny(input_lower, human_patterns) THEN "request_human"
    ELSE IF ContainsAny(input_lower, acceptance_patterns) THEN "accept"
    ELSE IF ContainsAny(input_lower, decline_patterns) THEN "decline"
    ELSE IF ContainsAny(input_lower, alternative_patterns) THEN "request_alternative"
    ELSE IF ContainsAny(input_lower, info_patterns) THEN "request_info"
    ELSE "unclear"

\* _classify_response on each of the texts, computed once
ResponseTypeOf == [u \in AllUtterances |-> classify_response(u)]

\* Results of _extract_slot_selection that are not an index.
SlotNone == -1
SlotIndexError == -2

RECURSIVE ScanOptions(_, _, _)
\* the for loop of _extract_slot_selection from option i on; the list of
\* ordinal words has three elements, so its subscript raises from i = 4 on
ScanOptions(input_lower, i, num_slots) ==
    IF i > num_slots
    THEN IF ContainsAny(input_lower, affirm_words) THEN 0 ELSE SlotNone
    ELSE IF \/ Contains(input_lower, option_prefix \o DecimalOf(i))
            \/ Contains(input_lower, DecimalOf(i))
         THEN i - 1
         ELSE IF i > Len(ordinal_words)
              THEN SlotIndexError
              ELSE IF Contains(input_lower, ordinal_words[i])
                   THEN i - 1
                   ELSE ScanOptions(input_lower, i + 1, num_slots)

extract_slot_selection(user_input, num_slots) ==
    ScanOptions(Lower(user_input), 1, num_slots)

\* _extract_slot_selection on each of the texts and each length of
\* proposed_slots, computed once
SlotSelectionOf ==
    [u \in AllUtterances, n \in 0..MaxSlots |-> extract_slot_selection(u, n)]

\* What process_response hands back: the context as left, and the action
\* ("error" for an error result, "raise" when an exception escapes).
Outcome(c, a) == [conv |-> c, action |-> a]

\* _handle_greeting_response ending the conversation on a decline
handle_greeting_response_DeclineEnds(c, response_type) ==
    IF response_type = "request_info"
    THEN Outcome([c EXCEPT !.state = "presenting_diagnosis"], "provide_diagnosis")
    ELSE IF response_type = "decline"
         THEN Outcome([c EXCEPT !.state = "declined"], "acknowledge_decline")
         ELSE Outcome([c EXCEPT !.state = "proposing_appointment"], "propose_appointment")

handle_greeting_response(c, response_type) ==
    IF response_type = "request_info"
    THEN Outcome([c EXCEPT !.state = "presenting_diagnosis"], "provide_diagnosis")
    ELSE Outcome([c EXCEPT !.state = "proposing_appointment"], "propose_appointment")

handle_diagnosis_response(c, response_type) ==
    IF response_type = "accept"
    THEN Outcome([c EXCEPT !.state = "proposing_appointment"], "propose_appointment")
    ELSE IF response_type = "decline"
         THEN Outcome([c EXCEPT !.state = "declined"], "acknowledge_decline")
         ELSE Outcome(c, "clarify")

handle_appointment_response(c, response_type, user_input) ==
    IF response_type = "accept"
    THEN LET slot_index == SlotSelectionOf[user_input, Len(c.proposed_slots)] IN
         IF slot_index = SlotIndexError
         THEN Outcome(c, "raise")
         ELSE IF slot_index # SlotNone /\ 0 <= slot_index /\ slot_index < Len(c.proposed_slots)
              THEN Outcome([c EXCEPT !.selected_slot = c.proposed_slots[slot_index + 1],
                                     !.state = "confirming_appointment",
                                     !.consent_recorded = TRUE],
                           "confirm_appointment")
              ELSE Outcome(c, "clarify_slot")
    ELSE IF response_type = "decline"
         THEN Outcome([c EXCEPT !.state = "declined"], "acknowledge_decline")
         ELSE IF response_type = "request_alternative"
              THEN Outcome(c, "request_alternative_slots")
              ELSE Outcome(c, "clarify")

\* _handle_response escalating an unclear input once turn_count reaches the limit
handle_response_EscalateAtLimit(c, response_type, user_input) ==
    IF response_type = "request_human"
    THEN Outcome([c EXCEPT !.state = "escalated"], "escalate_to_human")
    ELSE IF response_type = "unclear"
         THEN IF c.turn_count >= UnclearLimit
              THEN Outcome([c EXCEPT !.state = "escalated"], "escalate_to_human")
              ELSE Outcome(c, "clarify")
         ELSE IF c.state = "greeting"
              THEN handle_greeting_response(c, response_type)
              ELSE IF c.state = "presenting_diagnosis"
                   THEN handle_diagnosis_response(c, response_type)
                   ELSE IF c.state = "proposing_appointment"
                        THEN handle_appointment_response(c, response_type, user_input)
                        ELSE Outcome(c, "error")

handle_response(c, response_type, user_input) ==
    IF response_type = "request_human"
    THEN Outcome([c EXCEPT !.state = "escalated"], "escalate_to_human")
    ELSE IF response_type = "unclear"
         THEN IF c.turn_count > UnclearLimit
              THEN Outcome([c EXCEPT !.state = "escalated"], "escalate_to_human")
              ELSE Outcome(c, "clarify")
         ELSE IF c.state = "greeting"
              THEN handle_greeting_response(c, response_type)
              ELSE IF c.state = "presenting_diagnosis"
                   THEN handle_diagnosis_response(c, response_type)
                   ELSE IF c.state = "proposing_appointment"
                        THEN handle_appointment_response(c, response_type, user_input)
                        ELSE Outcome(c, "error")

\* process_response on a conversation that is registered
process_response(c, user_input) ==
    handle_response([c EXCEPT !.turn_count = @ + 1],
                    ResponseTypeOf[user_input], user_input)

-----------------------------------------------------------------------------
(* SlotScheduler (SchedulingAgent) *)

WindowDays(urgency) ==
    CASE urgency = "immediate" -> 1
      [] urgency = "urgent" -> 3
      [] urgency = "soon" -> 7
      [] OTHER -> 14

get_search_window(urgency, start_date) ==
    [start |-> start_date,
     end |-> start_date + 24 * WindowDays(urgency),
     priority |-> CASE urgency = "immediate" -> "critical"
                    [] urgency = "urgent" -> "high"
                    [] urgency = "soon" -> "medium"
                    [] OTHER -> "low"]

\* The center row when the lookup succeeds, the built-in mock center otherwise.
get_nearest_service_center(lookupOk) ==
    IF lookupOk
    THEN [service_center_id |-> 1, capacity |-> CenterCapacity]
    ELSE [service_center_id |-> 1, capacity |-> MockCapacity]

IsBooked(row) == row.status \in {"scheduled", "confirmed"}

\* Rows of the next 30 days that are scheduled or confirmed; [] when the query fails.
get_existing_appointments(rows, service_center_id, t, queryOk) ==
    IF queryOk
    THEN SelectSeq(rows, LAMBDA r : /\ r.service_center_id = service_center_id
                                    /\ r.appointment_time >= t
                                    /\ r.appointment_time <= t + 24 * 30
                                    /\ IsBooked(r))
    ELSE <<>>

count_overlapping_appointments(slot_start, slot_end, existing) ==
    Cardinality({i \in 1..Len(existing) :
        /\ slot_start < existing[i].appointment_time + existing[i].estimated_duration_hours
        /\ slot_end > existing[i].appointment_time})

has_conflict(slot_start, slot_end, existing, capacity) ==
    count_overlapping_appointments(slot_start, slot_end, existing) >= capacity

\* date is the day's midnight
generate_day_slots(date, existing, service_center, estimated_duration) ==
    LET hourly == [h \in 1..(BusinessEnd - BusinessStart) |->
                      [start |-> date + BusinessStart + h - 1,
                       dur |-> estimated_duration,
                       center |-> service_center.service_center_id]]
    IN SelectSeq(hourly, LAMBDA s :
           ~has_conflict(s.start, s.start + s.dur, existing, service_center.capacity))

Weekday(date) == (date \div 24) % 7

RECURSIVE DayLoop(_, _, _, _, _, _, _)
\* the while loop of _generate_available_slots from current_date on
DayLoop(current_date, slots, service_center, existing, search_window, duration, max_slots) ==
    IF ~(current_date <= search_window.end /\ Len(slots) < max_slots)
    THEN slots
    ELSE IF Weekday(current_date) \notin working_days /\ search_window.priority # "critical"
         THEN DayLoop(current_date + 24, slots, service_center, existing,
                      search_window, duration, max_slots)
         ELSE LET more == slots \o generate_day_slots(current_date, existing,
                                                      service_center, duration)
              IN IF Len(more) >= max_slots
                 THEN SubSeq(more, 1, max_slots)
                 ELSE DayLoop(current_date + 24, more, service_center, existing,
                              search_window, duration, max_slots)

generate_available_slots(service_center, existing, search_window, diagnosis, max_slots) ==
    DayLoop((search_window.start \div 24) * 24, <<>>, service_center, existing,
            search_window, diagnosis.downtime, max_slots)

find_available_slots(rows, t, diagnosis, max_slots, centerOk, queryOk) ==
    LET search_window == get_search_window(diagnosis.urgency, t)
        service_center == get_nearest_service_center(centerOk)
        existing == get_existing_appointments(rows, service_center.service_center_id, t, queryOk)
    IN generate_available_slots(service_center, existing, search_window, diagnosis, max_slots)

\* The row create_appointment inserts.  created_for records the context whose
\* handler inserted it; the program stores no such column.
NewAppointment(customer_id, vehicle_id, slot, created_for) ==
    [customer_id |-> customer_id, vehicle_id |-> vehicle_id,
     service_center_id |-> slot.center, appointment_time |-> slot.start,
     estimated_duration_hours |-> slot.dur, status |-> "scheduled",
     created_for |-> created_for]

-----------------------------------------------------------------------------
(* FeedbackAgent *)

ServiceOutcomes ==
    {"completed_as_predicted", "completed_different_issue", "no_issue_found",
     "partially_completed", "cancelled"}

\* meta_data of a prediction that no feedback has reached.
NoOutcome == [service_outcome |-> "none", prediction_accurate |-> FALSE]

\* Days before the appointment a prediction may have been issued to be tagged.
PredictionWindowDays == 7

\* A variant that tags the predictions of every vehicle.
update_prediction_labels_AnyVehicle(rows, vehicle_id, appointment_time, service_outcome) ==
    [n \in 1..Len(rows) |->
        IF /\ rows[n].prediction_timestamp >= appointment_time - 24 * PredictionWindowDays
           /\ rows[n].prediction_timestamp <= appointment_time
        THEN [rows[n] EXCEPT !.actual_outcome =
                 [service_outcome |-> service_outcome,
                  prediction_accurate |-> service_outcome = "completed_as_predicted"]]
        ELSE rows[n]]

\* The prediction rows after _update_prediction_labels.
update_prediction_labels(rows, vehicle_id, appointment_time, service_outcome) ==
    LET prediction_window_start == appointment_time - 24 * PredictionWindowDays
        prediction_accurate == service_outcome = "completed_as_predicted"
    IN [n \in 1..Len(rows) |->
           IF /\ rows[n].vehicle_id = vehicle_id
              /\ rows[n].prediction_timestamp >= prediction_window_start
              /\ rows[n].prediction_timestamp <= appointment_time
           THEN [rows[n] EXCEPT !.actual_outcome =
                    [service_outcome |-> service_outcome,
                     prediction_accurate |-> prediction_accurate]]
           ELSE rows[n]]

\* The row _create_maintenance_record inserts.
create_maintenance_record(appointment_id, appointment, service_outcome) ==
    [appointment_id |-> appointment_id, vehicle_id |-> appointment.vehicle_id,
     service_outcome |-> service_outcome]

\* What collect_feedback writes, in one transaction, for an appointment that
\* exists: the maintenance record, the labels, the appointment's status.
collect_feedback(appointment_id, service_outcome) ==
    LET appointment == appointments[appointment_id]
    IN /\ maintenance_records' = Append(maintenance_records,
              create_maintenance_record(appointment_id, appointment, service_outcome))
       /\ predictions' = update_prediction_labels(predictions, appointment.vehicle_id,
                                                  appointment.appointment_time, service_outcome)
       /\ appointments' = [appointments EXCEPT ![appointment_id].status = "completed"]

-----------------------------------------------------------------------------
(* DiagnosisMapper (DiagnosisAgent), as far as the orchestrator reads it *)

determine_urgency(severity) ==
    CASE severity = "critical" -> "immediate"
      [] severity = "high" -> "urgent"
      [] severity = "medium" -> "soon"
      [] OTHER -> "routine"

NoDiagnosis == [urgency |-> "none", downtime |-> 0]

diagnose(alert, downtime) ==
    [urgency |-> determine_urgency(alert.severity), downtime |-> downtime]

-----------------------------------------------------------------------------
(* WorkflowOrchestrator (MasterAgent): contexts, registries, audit trail *)

NoId == <<0, 0>>

\* WorkflowContext.__init__ at clock reading t
NewContext(alert, t) ==
    [workflow_id |-> <<alert.vehicle_id, t>>, alert |-> alert, state |-> "initiated",
     customer_info |-> 0, vehicle_info |-> 0, diagnosis |-> NoDiagnosis,
     conversation_id |-> NoId, proposed_slots |-> <<>>, appointment_id |-> 0,
     sla_deadline |-> -1, sla_met |-> "none", errors |-> <<>>, retry_count |-> 0]

\* d[key] = value on a dict
Put(d, key, value) == [x \in DOMAIN d \cup {key} |-> IF x = key THEN value ELSE d[x]]

\* del d[key]
Del(d, key) == [x \in DOMAIN d \ {key} |-> d[x]]

EmptyDict == [x \in {} |-> 0]

\* timedelta(hours=...) that process_alert adds to the clock reading
SlaHours(alert) ==
    LET urgency == IF alert.urgency = "absent" THEN "routine" ELSE alert.urgency
    IN IF urgency \in DOMAIN sla_constraints THEN sla_constraints[urgency] ELSE DefaultSla

\* _log_audit: the row is added when the store accepts the write; a failed
\* write is logged and swallowed.
log_audit(rows, context, event_type, writeOk) ==
    IF writeOk
    THEN Append(rows, [workflow_id |-> context.workflow_id, action |-> event_type,
                       state |-> context.state])
    ELSE rows

IdleCall == [op |-> "idle", pc |-> "idle", ctx |-> 0, slot |-> NoSlot]

FreeCalls == {k \in 1..MaxCalls : calls[k].op = "idle"}

FirstFree == CHOOSE k \in FreeCalls : \A j \in FreeCalls : k <= j

\* A coroutine of the actor returns (or raises) to its caller; the loop, when
\* it is the caller, goes on to its next statement.
Return(k) ==
    /\ calls' = [calls EXCEPT ![k] = IdleCall]
    /\ IF mcall = k
       THEN mpc' = "ack" /\ mcall' = 0
       ELSE UNCHANGED <<mpc, mcall>>
    /\ UNCHANGED batch

\* process_alert up to its first suspension: the context is created,
\* registered and given its SLA deadline.
BeginProcessAlert(k, alert) ==
    LET i == Len(ctxs) + 1
        context == [NewContext(alert, now) EXCEPT !.sla_deadline = now + SlaHours(alert)]
    IN /\ ctxs' = Append(ctxs, context)
       /\ active_workflows' = Put(active_workflows, context.workflow_id, i)
       /\ calls' = [calls EXCEPT ![k] =
              [op |-> "process_alert", pc |-> "lookup", ctx |-> i, slot |-> NoSlot]]

\* An except branch that records the error and runs the steps again.
FailWorkflowRetry(k, i, context, cause, writeOk) ==
    /\ ctxs' = [ctxs EXCEPT ![i] = [context EXCEPT !.errors = Append(@, cause),
                                                   !.retry_count = @ + 1]]
    /\ audit' = log_audit(audit, context, "workflow_retried", writeOk)
    /\ calls' = [calls EXCEPT ![k].pc = "lookup"]
    /\ UNCHANGED loopVars

\* the except branch of process_alert
FailWorkflow(k, i, context, cause, writeOk) ==
    LET failed == [context EXCEPT !.state = "failed", !.errors = Append(@, cause)]
    IN /\ ctxs' = [ctxs EXCEPT ![i] = failed]
       /\ audit' = log_audit(audit, failed, "workflow_failed", writeOk)
       /\ Return(k)

\* _execute_workflow, steps 1 and 2
PA_Diagnose(k) ==
    /\ calls[k].op = "process_alert" /\ calls[k].pc = "lookup"
    /\ \E downtime \in DowntimeChoices :
         LET lookupOk == storeUp
             writeOk == storeUp
             i == calls[k].ctx
             context == ctxs[i]
             vehicle_id == context.alert.vehicle_id
             found == lookupOk /\ vehicle_id \in DOMAIN VehicleOwner
         IN IF ~found
            THEN FailWorkflow(k, i, context, "lookup", writeOk)
            ELSE LET known == [context EXCEPT !.customer_info = VehicleOwner[vehicle_id],
                                              !.vehicle_info = vehicle_id]
                 IN IF context.alert.shape = "bad_probability"
                    THEN FailWorkflow(k, i, known, "diagnosis", writeOk)
                    ELSE LET diagnosed == [known EXCEPT
                                 !.diagnosis = diagnose(context.alert, downtime),
                                 !.state = "diagnosed"]
                         IN /\ ctxs' = [ctxs EXCEPT ![i] = diagnosed]
                            /\ audit' = log_audit(audit, diagnosed, "diagnosis_completed", writeOk)
                            /\ calls' = [calls EXCEPT ![k].pc = "slots"]
                            /\ UNCHANGED loopVars
    /\ UNCHANGED <<extVars, offered, report, transcript, now, ticks, streamVars, crashes, active_workflows, convs,
                   active_conversations, appointments, storeUp, flips>>

\* _execute_workflow, steps 3 and 4; raised is an exception that escapes the
\* slot search or the contact
PA_Contact(k) ==
    /\ calls[k].op = "process_alert" /\ calls[k].pc = "slots"
    /\ \E raised \in BOOLEAN :
         LET centerOk == storeUp
             queryOk == storeUp
             writeOk == storeUp
             i == calls[k].ctx
             context == ctxs[i]
         IN IF raised
            THEN /\ FailWorkflow(k, i, context, "slots", writeOk)
                 /\ UNCHANGED <<convs, active_conversations>>
            ELSE LET slots == find_available_slots(appointments, now, context.diagnosis,
                                                   MaxSlots, centerOk, queryOk)
                     conversation_id == <<context.customer_info, now>>
                     j == Len(convs) + 1
                     conversation == [NewConversation(context.customer_info,
                                                      context.vehicle_info, slots)
                                      EXCEPT !.state = "greeting"]
                     contacted == [context EXCEPT !.proposed_slots = slots,
                                                  !.conversation_id = conversation_id,
                                                  !.state = "contacting_customer"]
                 IN /\ convs' = Append(convs, conversation)
                    /\ active_conversations' = Put(active_conversations, conversation_id, j)
                    /\ ctxs' = [ctxs EXCEPT ![i] = contacted]
                    /\ audit' = log_audit(audit, contacted, "customer_contacted", writeOk)
                    /\ Return(k)
    /\ UNCHANGED <<extVars, offered, report, transcript, now, ticks, streamVars, crashes, active_workflows, appointments,
                   storeUp, flips>>

\* process_alert called on the actor by a client other than the loop
ProcessAlert(alert) ==
    /\ alert.shape # "no_vehicle_id"
    /\ FreeCalls # {}
    /\ BeginProcessAlert(FirstFree, alert)
    /\ UNCHANGED <<extVars, offered, report, transcript, now, ticks, streamVars, loopVars, crashes, convs,
                   active_conversations, storeVars>>

\* A booking path that also computes the deadline anew from the booking time.
MarkScheduledNewDeadline(context, appointment_id, t) ==
    [context EXCEPT !.appointment_id = appointment_id,
                    !.state = "scheduled",
                    !.sla_deadline = t + SlaHours(context.alert),
                    !.sla_met = "true"]

\* the same with the SLA taken as met whatever the clock reads
MarkScheduledAlwaysMet(context, appointment_id, t) ==
    [context EXCEPT !.appointment_id = appointment_id,
                    !.state = "scheduled",
                    !.sla_met = "true"]

\* what handle_customer_response writes to the context once the appointment
\* row exists, at clock reading t
MarkScheduled(context, appointment_id, t) ==
    [context EXCEPT !.appointment_id = appointment_id,
                    !.state = "scheduled",
                    !.sla_met = IF t <= context.sla_deadline THEN "true" ELSE "false"]

\* handle_customer_response up to its first suspension
HandleCustomerResponse(workflow_id, user_input) ==
    /\ workflow_id \in DOMAIN active_workflows
    /\ LET i == active_workflows[workflow_id]
           context == ctxs[i]
       IN /\ context.conversation_id \in DOMAIN active_conversations
          /\ LET j == active_conversations[context.conversation_id]
                 result == process_response(convs[j], user_input)
             IN /\ convs[j].turn_count < MaxTurns
                /\ convs' = [convs EXCEPT ![j] = result.conv]
                /\ CASE result.action = "confirm_appointment" ->
                          /\ FreeCalls # {}
                          /\ calls' = [calls EXCEPT ![FirstFree] =
                                 [op |-> "handle_customer_response", pc |-> "create",
                                  ctx |-> i, slot |-> result.conv.selected_slot]]
                          /\ UNCHANGED <<ctxs, audit>>
                     [] result.action = "acknowledge_decline" ->
                            LET writeOk == storeUp
                                declined == [context EXCEPT !.state = "customer_declined"]
                            IN /\ ctxs' = [ctxs EXCEPT ![i] = declined]
                               /\ audit' = log_audit(audit, declined, "customer_declined", writeOk)
                               /\ UNCHANGED calls
                     [] result.action = "escalate_to_human" ->
                            LET writeOk == storeUp
                                escalated == [context EXCEPT !.state = "escalated"]
                            IN /\ ctxs' = [ctxs EXCEPT ![i] = escalated]
                               /\ audit' = log_audit(audit, escalated, "escalated_to_human", writeOk)
                               /\ UNCHANGED calls
                     [] OTHER -> UNCHANGED <<ctxs, audit, calls>>
    /\ UNCHANGED <<extVars, offered, report, transcript, now, ticks, streamVars, loopVars, crashes, active_workflows,
                   active_conversations, appointments, storeUp, flips>>

\* handle_customer_response after create_appointment: the row is inserted and
\* the workflow scheduled, or the insert raised and the handler with it
HCR_Create(k) ==
    /\ calls[k].op = "handle_customer_response" /\ calls[k].pc = "create"
    /\ LET insertOk == storeUp
           writeOk == storeUp
           i == calls[k].ctx
           context == ctxs[i]
       IN IF insertOk
          THEN LET scheduled == MarkScheduled(context, Len(appointments) + 1, now)
               IN /\ appointments' = Append(appointments,
                         NewAppointment(context.customer_info, context.vehicle_info,
                                        calls[k].slot, i))
                  /\ ctxs' = [ctxs EXCEPT ![i] = scheduled]
                  /\ audit' = log_audit(audit, scheduled, "appointment_scheduled", writeOk)
          ELSE UNCHANGED <<appointments, ctxs, audit>>
    /\ Return(k)
    /\ UNCHANGED <<extVars, offered, report, transcript, now, ticks, streamVars, crashes, active_workflows, convs,
                   active_conversations, storeUp, flips>>

\* handle_service_completion; the follow-up lookup raises when the store fails,
\* which skips the audit entry
HandleServiceCompletion(workflow_id) ==
    /\ workflow_id \in DOMAIN active_workflows
    /\ Cardinality({n \in 1..Len(audit) : /\ audit[n].workflow_id = workflow_id
                                          /\ audit[n].action = "service_completed"})
          < MaxRepeat
    /\ LET followUpOk == storeUp
           writeOk == storeUp
           i == active_workflows[workflow_id]
           completed == [ctxs[i] EXCEPT !.state = "service_completed"]
       IN /\ ctxs' = [ctxs EXCEPT ![i] = completed]
          /\ audit' = IF followUpOk
                      THEN log_audit(audit, completed, "service_completed", writeOk)
                      ELSE audit
    /\ UNCHANGED <<extVars, offered, report, transcript, now, ticks, streamVars, loopVars, crashes, active_workflows, convs,
                   active_conversations, calls, appointments, storeUp, flips>>

\* handle_feedback_submission when collect_feedback returns (a feedback result,
\* or the error result for a missing appointment); when it raises nothing changes
HandleFeedbackSubmission(workflow_id) ==
    /\ workflow_id \in DOMAIN active_workflows
    /\ storeUp
    /\ LET writeOk == storeUp
           i == active_workflows[workflow_id]
           context == ctxs[i]
           a == context.appointment_id
           collected == [context EXCEPT !.state = "feedback_collected"]
           \* feedback_data names no service_outcome: the default is taken
           service_outcome == "completed_as_predicted"
       IN /\ IF a \in 1..Len(appointments)
             THEN collect_feedback(a, service_outcome)
             ELSE UNCHANGED <<appointments, predictions, maintenance_records>>
          /\ ctxs' = [ctxs EXCEPT ![i] = collected]
          /\ audit' = log_audit(audit, collected, "feedback_collected", writeOk)
          /\ active_workflows' = Del(active_workflows, workflow_id)
    /\ UNCHANGED <<limiterVars, telemetryVars, feedback, offered, report, transcript, now, ticks, streamVars, loopVars, crashes, convs,
                   active_conversations, calls, storeUp, flips>>

-----------------------------------------------------------------------------
(* AlertStreamConsumer: the stream, its consumer group, the orchestrator loop *)

\* add_to_stream on alerts:predicted
XAdd(alert) ==
    /\ Len(stream) < MaxMsgs
    /\ stream' = Append(stream, alert)
    /\ UNCHANGED <<extVars, offered, report, transcript, now, ticks, lastDelivered, pending, loopVars, crashes, memVars, storeVars>>

\* Ids that a group read with ">" returns: entries never delivered to the
\* group, oldest first, at most count of them.
read_group(count) ==
    [n \in 1..(IF Len(stream) - lastDelivered < count
               THEN Len(stream) - lastDelivered ELSE count) |-> lastDelivered + n]

SeqToSet(s) == {s[n] : n \in 1..Len(s)}

\* One poll of the loop.  An empty poll leaves everything as it is.
LoopRead ==
    /\ mpc = "read"
    /\ \/ LET messages == read_group(ReadCount)
          IN /\ messages # <<>>
             /\ lastDelivered' = lastDelivered + Len(messages)
             /\ pending' = pending \cup SeqToSet(messages)
             /\ batch' = messages
             /\ mpc' = "next"
       \/ /\ mpc' = "sleep"
          /\ UNCHANGED <<lastDelivered, pending, batch>>
    /\ UNCHANGED <<extVars, offered, report, transcript, now, ticks, stream, mcall, crashes, memVars, storeVars>>

\* A loop that acknowledges the entry as it hands it to process_alert.
LoopDispatchAckFirst ==
    /\ mpc = "next"
    /\ FreeCalls # {}
    /\ BeginProcessAlert(FirstFree, stream[Head(batch)])
    /\ pending' = pending \ {Head(batch)}
    /\ mcall' = FirstFree
    /\ mpc' = "await"
    /\ UNCHANGED <<extVars, offered, report, transcript, now, ticks, stream, lastDelivered, batch, crashes, convs,
                   active_conversations, storeVars>>

\* The loop body up to the suspension of process_alert; an entry without
\* vehicle_id raises before a context exists.
LoopDispatch ==
    /\ mpc = "next"
    /\ LET alert == stream[Head(batch)]
       IN IF alert.shape = "no_vehicle_id"
          THEN /\ mpc' = "sleep"
               /\ UNCHANGED <<batch, mcall, memVars>>
          ELSE /\ FreeCalls # {}
               /\ BeginProcessAlert(FirstFree, alert)
               /\ mcall' = FirstFree
               /\ mpc' = "await"
               /\ UNCHANGED <<batch, convs, active_conversations>>
    /\ UNCHANGED <<extVars, offered, report, transcript, now, ticks, streamVars, crashes, storeVars>>

\* acknowledge_message for the entry just processed, then the next entry of
\* the batch or the next poll; when the acknowledgement raises the batch is left
LoopAck ==
    /\ mpc = "ack"
    /\ \/ /\ pending' = pending \ {Head(batch)}
          /\ batch' = Tail(batch)
          /\ mpc' = IF Tail(batch) = <<>> THEN "read" ELSE "next"
       \/ /\ mpc' = "sleep"
          /\ UNCHANGED <<pending, batch>>
    /\ UNCHANGED <<extVars, offered, report, transcript, now, ticks, stream, lastDelivered, mcall, crashes, memVars, storeVars>>

\* the except branch of the loop: sleep, then poll again
LoopSleep ==
    /\ mpc = "sleep"
    /\ mpc' = "read"
    /\ batch' = <<>>
    /\ UNCHANGED <<extVars, offered, report, transcript, now, ticks, streamVars, mcall, crashes, memVars, storeVars>>

\* The orchestrator process dies and is started again: what it held in memory
\* is gone, the stream, its group and the store are not.  ctxs and convs keep
\* the objects of the dead process, which nothing refers to any more.
Crash ==
    /\ crashes < MaxCrashes
    /\ crashes' = crashes + 1
    /\ active_workflows' = EmptyDict
    /\ active_conversations' = EmptyDict
    /\ calls' = [k \in 1..MaxCalls |-> IdleCall]
    /\ mpc' = "read"
    /\ batch' = <<>>
    /\ mcall' = 0
    /\ UNCHANGED <<extVars, offered, report, transcript, now, ticks, streamVars, ctxs, convs, storeVars>>

\* The operator stops the orchestrator (Ctrl+C in agents/__main__.py): the
\* driver leaves ray.get and ray.shutdown() ends the actor wherever it is.
Shutdown ==
    /\ mpc # "stopped"
    /\ mpc' = "stopped"
    /\ active_workflows' = EmptyDict
    /\ active_conversations' = EmptyDict
    /\ calls' = [k \in 1..MaxCalls |-> IdleCall]
    /\ batch' = <<>>
    /\ mcall' = 0
    /\ UNCHANGED <<extVars, offered, report, transcript, now, ticks, streamVars, crashes, ctxs, convs, storeVars>>

Tick(d) ==
    /\ ticks < MaxTicks
    /\ ticks' = ticks + 1
    /\ now' = now + d
    /\ UNCHANGED <<extVars, offered, report, transcript, streamVars, loopVars, crashes, memVars, storeVars>>

\* The store stops answering, or answers again.
StoreFlip ==
    /\ flips < MaxFlips
    /\ flips' = flips + 1
    /\ storeUp' = ~storeUp
    /\ UNCHANGED <<extVars, offered, report, transcript, now, ticks, streamVars, loopVars, crashes, memVars, appointments, audit>>

-----------------------------------------------------------------------------
(* The engagement agent called by a client of its own, as test_agents.py does *)

\* the slots such a client proposes: hourly from 08:00 on Tuesday
DialogueSlots == [n \in 1..MaxSlots |-> [start |-> 31 + n, dur |-> 2, center |-> 1]]

\* the vehicle such a client calls about
DialogueVehicles == {7}

\* a conversation id that names no conversation
UnknownConversation == <<0, 0>>

\* CustomerEngagementAgent.initiate_contact with the first num_slots slots
InitiateContact(customer_id, vehicle_id, num_slots) ==
    /\ Len(convs) < MaxDialogues
    /\ LET conversation_id == <<customer_id, now>>
           conversation == [NewConversation(customer_id, vehicle_id,
                                            SubSeq(DialogueSlots, 1, num_slots))
                            EXCEPT !.state = "greeting"]
       IN /\ convs' = Append(convs, conversation)
          /\ active_conversations' = Put(active_conversations, conversation_id,
                                         Len(convs) + 1)
    /\ UNCHANGED <<extVars, offered, report, transcript, now, ticks, streamVars, loopVars, crashes, ctxs,
                   active_workflows, calls, storeVars>>

\* CustomerEngagementAgent.process_response called by that client; the
\* transcript keeps the input, the class it was given and the result's action
ProcessResponse(conversation_id, user_input) ==
    /\ Len(transcript) < MaxTurns
    /\ IF conversation_id \notin DOMAIN active_conversations
       THEN /\ transcript' = Append(transcript,
                                    [conversation_id |-> conversation_id,
                                     user_input |-> user_input,
                                     response_type |-> "none",
                                     action |-> "error"])
            /\ UNCHANGED convs
       ELSE LET j == active_conversations[conversation_id]
                result == process_response(convs[j], user_input)
            IN /\ convs' = [convs EXCEPT ![j] = result.conv]
               /\ transcript' = Append(transcript,
                                       [conversation_id |-> conversation_id,
                                        user_input |-> user_input,
                                        response_type |-> ResponseTypeOf[user_input],
                                        action |-> result.action])
    /\ UNCHANGED <<extVars, offered, report, now, ticks, streamVars, loopVars, crashes, ctxs, active_workflows,
                   active_conversations, calls, storeVars>>

-----------------------------------------------------------------------------
(* The scheduling agent's operations on an appointment that exists, called by
   a client of its own; all of them raise, and change nothing, when the store
   does not answer *)

\* the values of Appointment.status in use
AppointmentStatuses == {"scheduled", "confirmed", "completed", "cancelled"}

\* SchedulingAgent.update_appointment_status
UpdateAppointmentStatus(appointment_id, status) ==
    /\ storeUp
    /\ appointment_id \in 1..Len(appointments)
    /\ appointments' = [appointments EXCEPT ![appointment_id].status = status]
    /\ UNCHANGED <<extVars, offered, report, transcript, now, ticks, streamVars, loopVars, crashes, memVars,
                   audit, storeUp, flips>>

\* SchedulingAgent.cancel_appointment
CancelAppointment(appointment_id) ==
    UpdateAppointmentStatus(appointment_id, "cancelled")

\* SchedulingAgent.reschedule_appointment
RescheduleAppointment(appointment_id, new_slot) ==
    /\ storeUp
    /\ appointment_id \in 1..Len(appointments)
    /\ appointments' = [appointments EXCEPT
           ![appointment_id].appointment_time = new_slot.start,
           ![appointment_id].estimated_duration_hours = new_slot.dur]
    /\ UNCHANGED <<extVars, offered, report, transcript, now, ticks, streamVars, loopVars, crashes, memVars,
                   audit, storeUp, flips>>

-----------------------------------------------------------------------------

\* CustomerEngagementAgent.complete_conversation called by that client
CompleteConversation(conversation_id) ==
    /\ conversation_id \in DOMAIN active_conversations
    /\ LET j == active_conversations[conversation_id]
       IN convs' = [convs EXCEPT ![j].state = "completed"]
    /\ active_conversations' = Del(active_conversations, conversation_id)
    /\ UNCHANGED <<extVars, offered, report, transcript, now, ticks, streamVars, loopVars, crashes, ctxs,
                   active_workflows, calls, storeVars>>

-----------------------------------------------------------------------------

(* The scheduling agent and the diagnosis agent called by a client of their
   own, as test_agents.py calls them *)

\* Clock readings a search may be made at: Monday 07:00 and 09:00, Friday
\* 16:00, Saturday 10:00.
SearchTimes == {7, 9, 4 * 24 + 16, 5 * 24 + 10}

Urgencies == {"immediate", "urgent", "soon", "routine"}

\* total_estimated_downtime_hours of the diagnoses a search is made for.
JobLengths == {2, 24}

\* max_slots of a search: one slot, or the five the orchestrator asks for.
SlotCounts == {1, MaxSlots}

NoSearch == [t |-> 0, urgency |-> "none", downtime |-> 0, max_slots |-> 0, slots |-> <<>>]

\* find_available_slots never raises: a failed lookup answers the mock center,
\* a failed query answers no rows.
FindSlots(urgency, downtime, max_slots) ==
    /\ offered' = [t |-> now, urgency |-> urgency, downtime |-> downtime,
                   max_slots |-> max_slots,
                   slots |-> find_available_slots(appointments, now,
                                 [urgency |-> urgency, downtime |-> downtime],
                                 max_slots, storeUp, storeUp)]
    /\ UNCHANGED <<extVars, report, transcript, now, ticks, streamVars, loopVars, crashes, memVars, storeVars>>

\* create_appointment for slot n of the last answer; it raises, and inserts
\* nothing, when the store does not answer.
CreateAppointment(n) ==
    /\ storeUp
    /\ Len(appointments) < MaxBooked
    /\ n \in 1..Len(offered.slots)
    /\ appointments' = Append(appointments, NewAppointment(1, 7, offered.slots[n], 0))
    /\ UNCHANGED <<extVars, offered, report, transcript, now, ticks, streamVars, loopVars, crashes, memVars,
                   audit, storeUp, flips>>

\* Rows the prediction service has written: vehicle and time of issue.  The
\* times lie around the window of an appointment at Monday 08:00: eight days,
\* seven days and eight hours before it, at it, and one hour after it.
PredictionVehicles == {7, 8}
PredictionTimes == {8 - 24 * 8, 8 - 24 * 7, 0, 8, 9}

RecordPrediction(vehicle_id, t) ==
    /\ storeUp
    /\ Len(predictions) < MaxPredictions
    /\ predictions' = Append(predictions,
          [vehicle_id |-> vehicle_id, prediction_timestamp |-> t, actual_outcome |-> NoOutcome])
    /\ UNCHANGED <<limiterVars, telemetryVars, maintenance_records, feedback, offered, report, transcript, now, ticks,
                   streamVars, loopVars, crashes, memVars, storeVars>>

NoFeedback == [appointment_id |-> 0, service_outcome |-> "none", error |-> "none",
               predictions_updated |-> 0]

\* collect_feedback called by a client of its own; it raises, and the
\* transaction is rolled back, when the store does not answer.
CollectFeedback(appointment_id, service_outcome) ==
    /\ storeUp
    /\ Len(maintenance_records) < MaxFeedbacks
    /\ IF appointment_id \in 1..Len(appointments)
       THEN /\ collect_feedback(appointment_id, service_outcome)
            /\ feedback' = [appointment_id |-> appointment_id,
                            service_outcome |-> service_outcome, error |-> "none",
                            predictions_updated |->
                                Cardinality({n \in 1..Len(predictions) :
                                                predictions'[n] # predictions[n]})]
       ELSE /\ feedback' = [appointment_id |-> appointment_id,
                            service_outcome |-> service_outcome,
                            error |-> "Appointment not found", predictions_updated |-> 0]
            /\ UNCHANGED <<appointments, predictions, maintenance_records>>
    /\ UNCHANGED <<limiterVars, telemetryVars, offered, report, transcript, now, ticks, streamVars, loopVars, crashes, memVars,
                   audit, storeUp, flips>>

\* component_rules, as far as diagnose reads the component names.
component_rules ==
    [engine_overheating |-> <<"Thermostat", "Water Pump", "Radiator", "Cooling Fan">>,
     low_oil_pressure |-> <<"Oil Pump", "Engine Bearings", "Oil Filter", "PCV Valve">>,
     high_vibration |-> <<"Engine Mounts", "Wheel Balance", "Drive Shaft", "Brake Rotors">>,
     battery_degradation |-> <<"Battery", "Alternator", "Voltage Regulator", "Battery Cables">>,
     fuel_system |-> <<"Fuel Pump", "Fuel Filter", "Fuel Injectors", "Fuel Pressure Regulator">>]

\* A variant that looks for the fuel pattern first.
identify_issue_category_FuelFirst(explanation, feature_importance) ==
    IF "fuel" \in explanation
        THEN "fuel_system"
    ELSE IF "temperature" \in explanation \/ "engine_temperature" \in feature_importance
        THEN "engine_overheating"
    ELSE IF "oil" \in explanation \/ "oil_pressure" \in feature_importance
        THEN "low_oil_pressure"
    ELSE IF "vibration" \in explanation \/ "vibration_level" \in feature_importance
        THEN "high_vibration"
    ELSE IF "battery" \in explanation \/ "battery_voltage" \in feature_importance
        THEN "battery_degradation"
    ELSE "engine_overheating"

\* An explanation is the set of the pattern words it contains, a feature
\* importance the set of the sensor names its keys contain.
identify_issue_category(explanation, feature_importance) ==
    IF "temperature" \in explanation \/ "engine_temperature" \in feature_importance
        THEN "engine_overheating"
    ELSE IF "oil" \in explanation \/ "oil_pressure" \in feature_importance
        THEN "low_oil_pressure"
    ELSE IF "vibration" \in explanation \/ "vibration_level" \in feature_importance
        THEN "high_vibration"
    ELSE IF "battery" \in explanation \/ "battery_voltage" \in feature_importance
        THEN "battery_degradation"
    ELSE IF "fuel" \in explanation
        THEN "fuel_system"
    ELSE "engine_overheating"

Min(a, b) == IF a <= b THEN a ELSE b

\* components.sort(key=failure_probability, reverse=True): stable, so equal
\* probabilities keep the order they were appended in.
RECURSIVE sort_by_probability(_)
sort_by_probability(components) ==
    IF components = <<>>
    THEN <<>>
    ELSE LET n == Len(components)
             front == sort_by_probability(SubSeq(components, 1, n - 1))
             c == components[n]
             k == Cardinality({i \in 1..Len(front) :
                                  front[i].failure_probability >= c.failure_probability})
         IN SubSeq(front, 1, k) \o <<c>> \o SubSeq(front, k + 1, Len(front))

\* A variant that gives every component the alert's own probability.
diagnose_components_FlatProbability(issue_category, failure_probability, severity) ==
    LET names == component_rules[issue_category]
        num_components == IF severity \in {"low", "medium"} THEN 1 ELSE Min(3, Len(names))
    IN [i \in 1..num_components |->
            [component_name |-> names[i], failure_probability |-> failure_probability * 10]]

\* failure_probability comes in hundredths; a component's probability is kept
\* in thousandths, so that failure_probability * (1.0 - i * 0.2) is the
\* integer failure_probability * (10 - 2 i).
diagnose_components(issue_category, failure_probability, severity) ==
    IF issue_category \notin DOMAIN component_rules
    THEN <<>>
    ELSE LET names == component_rules[issue_category]
             num_components == IF severity \in {"low", "medium"} THEN 1 ELSE Min(3, Len(names))
             components == [i \in 1..num_components |->
                               [component_name |-> names[i],
                                failure_probability |-> failure_probability * (10 - 2 * (i - 1))]]
         IN sort_by_probability(components)

NoComponent == [component_name |-> "none", failure_probability |-> 0]

\* The diagnostic report, without its texts and its cost.
diagnose_report(prediction, downtime) ==
    LET issue_category == identify_issue_category(prediction.explanation,
                                                   prediction.feature_importance)
        components == diagnose_components(issue_category, prediction.failure_probability,
                                          prediction.severity)
    IN [issue_category |-> issue_category,
        severity |-> prediction.severity,
        primary_component |-> IF components # <<>> THEN components[1] ELSE NoComponent,
        related_components |-> IF Len(components) > 1
                               THEN SubSeq(components, 2, Len(components))
                               ELSE <<>>,
        total_estimated_downtime_hours |-> IF components # <<>> THEN downtime ELSE 0,
        urgency |-> determine_urgency(prediction.severity)]

\* The predictions a client asks a diagnosis for.
Severities == {"low", "medium", "high", "critical", "unknown"}
Probabilities == {0, 55, 85, 100}
Explanations == {{}, {"temperature"}, {"oil"}, {"vibration"}, {"battery"}, {"fuel"},
                 {"oil", "fuel"}}
FeatureSets == {{}, {"battery_voltage"}}

Predictions ==
    [severity : Severities, failure_probability : Probabilities,
     explanation : Explanations, feature_importance : FeatureSets]

NoPrediction == [severity |-> "none", failure_probability |-> 0,
                 explanation |-> {}, feature_importance |-> {}]

NoReport == [prediction |-> NoPrediction, diagnosis |-> diagnose_report(NoPrediction, 0)]

Diagnose(prediction) ==
    /\ \E downtime \in DowntimeChoices :
          report' = [prediction |-> prediction,
                     diagnosis |-> diagnose_report(prediction, downtime)]
    /\ UNCHANGED <<extVars, offered, transcript, now, ticks, streamVars, loopVars, crashes, memVars, storeVars>>

-----------------------------------------------------------------------------
(* RateLimitMiddleware, as the ingestion service installs it *)

RequestsPerMinute == 120
BurstSize == RequestsPerMinute * 2

\* refill_rate, tokens per second
RefillRate == RequestsPerMinute \div 60

\* Requests the client of test_rate_limiting sends.
BurstLength == 150

exempt_paths == {"/health", "/metrics", "/docs", "/openapi.json", "/redoc"}

\* The paths requested: each is an exempt path itself or begins with none.
Paths == {"/health", "/api/v1/vehicles"}

Clients == {"testclient"}

IsExempt(path) == path \in exempt_paths

\* TokenBucket(capacity, refill_rate) created at time t
NewBucket(t) == [tokens |-> BurstSize, last_refill |-> t]

\* TokenBucket._refill at time t
refill(bucket, t) ==
    [tokens |-> Min(BurstSize, bucket.tokens + (t - bucket.last_refill) * RefillRate),
     last_refill |-> t]

\* TokenBucket.consume at time t: whether a token was taken, and the bucket after
consume(bucket, t) ==
    LET refilled == refill(bucket, t)
    IN IF refilled.tokens >= 1
       THEN [ok |-> TRUE, bucket |-> [refilled EXCEPT !.tokens = @ - 1]]
       ELSE [ok |-> FALSE, bucket |-> refilled]

Requests == responses["/health"].ok + responses["/health"].limited
            + responses["/api/v1/vehicles"].ok + responses["/api/v1/vehicles"].limited

\* One request of the burst through RateLimitMiddleware.dispatch: the answer
\* is 429 when no token is left, and the route's own answer otherwise.
Dispatch(client_ip, path) ==
    /\ Requests < BurstLength
    /\ IF IsExempt(path)
       THEN /\ responses' = [responses EXCEPT ![path].ok = @ + 1]
            /\ UNCHANGED buckets
       ELSE LET bucket == IF client_ip \in DOMAIN buckets
                          THEN buckets[client_ip]
                          ELSE NewBucket(lclock)
                taken == consume(bucket, lclock)
            IN /\ buckets' = Put(buckets, client_ip, taken.bucket)
               /\ responses' = IF taken.ok
                               THEN [responses EXCEPT ![path].ok = @ + 1]
                               ELSE [responses EXCEPT ![path].limited = @ + 1]
    /\ UNCHANGED <<lclock, feedbackVars, telemetryVars, offered, report, transcript, now, ticks,
                   streamVars, loopVars, crashes, memVars, storeVars>>

\* A second passes between two requests of the burst.
Elapse ==
    /\ lclock < MaxSeconds
    /\ lclock' = lclock + 1
    /\ UNCHANGED <<buckets, responses, feedbackVars, telemetryVars, offered, report, transcript,
                   now, ticks, streamVars, loopVars, crashes, memVars, storeVars>>

-----------------------------------------------------------------------------
(* TelemetryConsumer, while it is running *)

\* count of the group read
TelemetryReadCount == 10

\* What a telemetry entry decodes to: readings inside the thresholds, readings
\* outside them, or a reading that float() rejects.
TelemetryKinds == {"normal", "anomalous", "malformed"}

\* A producer adds an entry to the telemetry stream.
TelemetryArrive(kind) ==
    /\ Len(telemetry) < MaxTelemetry
    /\ telemetry' = Append(telemetry, [kind |-> kind])
    /\ UNCHANGED <<tdelivered, tpending, tpc, tbatch, tresults, alerts_out, tfails,
                   feedbackVars, limiterVars, offered, report, transcript, now, ticks,
                   streamVars, loopVars, crashes, memVars, storeVars>>

\* A variant that reports success whether or not the alert was published.
process_telemetry_AlwaysTrue(message_id, data, addOk) ==
    [success |-> TRUE, published |-> data.kind = "anomalous" /\ addOk]

\* process_telemetry: whether it returns True, and whether it added an alert
\* to the alerts stream.  addOk says whether add_to_stream succeeds.
process_telemetry(message_id, data, addOk) ==
    IF data.kind = "malformed"
    THEN [success |-> FALSE, published |-> FALSE]
    ELSE IF data.kind = "anomalous"
         THEN [success |-> addOk, published |-> addOk]
         ELSE [success |-> TRUE, published |-> FALSE]

\* The group read of consume_stream; an empty answer leaves the loop where it is.
TelemetryRead ==
    /\ tpc = "read"
    /\ \E readOk \in BOOLEAN :
          IF readOk
          THEN LET last == Min(Len(telemetry), tdelivered + TelemetryReadCount)
                   ids == [n \in 1..(last - tdelivered) |-> tdelivered + n]
               IN /\ ids # <<>>
                  /\ tbatch' = ids
                  /\ tdelivered' = last
                  /\ tpending' = tpending \cup {ids[n] : n \in 1..Len(ids)}
                  /\ tpc' = "process"
                  /\ UNCHANGED tfails
          ELSE /\ tfails < MaxStreamFailures
               /\ tfails' = tfails + 1
               /\ tpc' = "sleep"
               /\ UNCHANGED <<tbatch, tdelivered, tpending>>
    /\ UNCHANGED <<telemetry, tresults, alerts_out, feedbackVars, limiterVars, offered, report,
                   transcript, now, ticks, streamVars, loopVars, crashes, memVars, storeVars>>

\* process_telemetry for the next entry of the batch, and the branch on its result.
TelemetryProcess ==
    /\ tpc = "process"
    /\ LET message_id == Head(tbatch) IN
       \E addOk \in BOOLEAN :
          /\ addOk \/ (telemetry[message_id].kind = "anomalous" /\ tfails < MaxStreamFailures)
          /\ LET result == process_telemetry(message_id, telemetry[message_id], addOk)
             IN /\ tresults' = Put(tresults, message_id, result.success)
                /\ alerts_out' = IF result.published
                                 THEN Append(alerts_out, [source |-> message_id])
                                 ELSE alerts_out
                /\ tfails' = IF addOk THEN tfails ELSE tfails + 1
                /\ IF result.success
                   THEN /\ tpc' = "ack"
                        /\ UNCHANGED tbatch
                   ELSE /\ tbatch' = Tail(tbatch)
                        /\ tpc' = IF Tail(tbatch) = <<>> THEN "read" ELSE "process"
    /\ UNCHANGED <<telemetry, tdelivered, tpending, feedbackVars, limiterVars, offered, report,
                   transcript, now, ticks, streamVars, loopVars, crashes, memVars, storeVars>>

\* acknowledge for the entry that was processed; when it raises, the loop's
\* handler sleeps and the rest of the batch is abandoned.
TelemetryAck ==
    /\ tpc = "ack"
    /\ \E ackOk \in BOOLEAN :
          IF ackOk
          THEN /\ tpending' = tpending \ {Head(tbatch)}
               /\ tbatch' = Tail(tbatch)
               /\ tpc' = IF Tail(tbatch) = <<>> THEN "read" ELSE "process"
               /\ UNCHANGED tfails
          ELSE /\ tfails < MaxStreamFailures
               /\ tfails' = tfails + 1
               /\ tbatch' = <<>>
               /\ tpc' = "sleep"
               /\ UNCHANGED tpending
    /\ UNCHANGED <<telemetry, tdelivered, tresults, alerts_out, feedbackVars, limiterVars, offered,
                   report, transcript, now, ticks, streamVars, loopVars, crashes, memVars, storeVars>>

\* asyncio.sleep(5) of the loop's handler
TelemetrySleep ==
    /\ tpc = "sleep"
    /\ tpc' = "read"
    /\ UNCHANGED <<telemetry, tdelivered, tpending, tbatch, tresults, alerts_out, tfails,
                   feedbackVars, limiterVars, offered, report, transcript, now, ticks,
                   streamVars, loopVars, crashes, memVars, storeVars>>

\* Entries of the telemetry stream that were delivered and acknowledged.
TelemetryAcked == {m \in 1..tdelivered : m \notin tpending}

-----------------------------------------------------------------------------

\* The state after construction, with the clock at one of the given readings.
Started(times) ==
    /\ now \in times
    /\ ticks = 0
    /\ stream = <<>>
    /\ lastDelivered = 0
    /\ pending = {}
    /\ mpc = "read"
    /\ batch = <<>>
    /\ mcall = 0
    /\ crashes = 0
    /\ ctxs = <<>>
    /\ active_workflows = EmptyDict
    /\ convs = <<>>
    /\ active_conversations = EmptyDict
    /\ calls = [k \in 1..MaxCalls |-> IdleCall]
    /\ appointments = <<>>
    /\ audit = <<>>
    /\ storeUp \in BOOLEAN
    /\ flips = 0
    /\ transcript = <<>>
    /\ offered = NoSearch
    /\ report = NoReport
    /\ predictions = <<>>
    /\ maintenance_records = <<>>
    /\ feedback = NoFeedback
    /\ buckets = EmptyDict
    /\ lclock = 0
    /\ responses = [path \in Paths |-> [ok |-> 0, limited |-> 0]]
    /\ telemetry = <<>>
    /\ tdelivered = 0
    /\ tpending = {}
    /\ tpc = "read"
    /\ tbatch = <<>>
    /\ tresults = EmptyDict
    /\ alerts_out = <<>>
    /\ tfails = 0

Init == Started(StartTimes)

InitSlots == Started(SearchTimes)

\* The orchestrator's public operations, called in any order by its clients.
Next ==
    \/ \E a \in Alerts : Len(ctxs) < MaxCtx /\ ProcessAlert(a)
    \/ \E k \in 1..MaxCalls : PA_Diagnose(k)
    \/ \E k \in 1..MaxCalls : PA_Contact(k)
    \/ \E w \in DOMAIN active_workflows, u \in Utterances : HandleCustomerResponse(w, u)
    \/ \E k \in 1..MaxCalls : HCR_Create(k)
    \/ \E w \in DOMAIN active_workflows : HandleServiceCompletion(w)
    \/ \E w \in DOMAIN active_workflows : HandleFeedbackSubmission(w)
    \/ \E d \in TickSteps : Tick(d)
    \/ StoreFlip

Spec == Init /\ [][Next]_vars

\* The alert stream, the orchestrator's loop over it and the process it runs in.
NextLoop ==
    \/ \E a \in Alerts : XAdd(a)
    \/ LoopRead
    \/ LoopDispatch
    \/ LoopAck
    \/ LoopSleep
    \/ \E k \in 1..MaxCalls : PA_Diagnose(k)
    \/ \E k \in 1..MaxCalls : PA_Contact(k)
    \/ \E w \in DOMAIN active_workflows, u \in LoopUtterances :
          HandleCustomerResponse(w, u)
    \/ \E k \in 1..MaxCalls : HCR_Create(k)
    \/ Crash
    \/ StoreFlip

SpecLoop == Init /\ [][NextLoop]_vars

\* The same with an operator who may stop the orchestrator.
NextLifecycle ==
    \/ NextLoop
    \/ Shutdown

SpecLifecycle == Init /\ [][NextLifecycle]_vars

\* Several workflows on their way to a booking: alerts that pass diagnosis,
\* customers who answer the proposal.
NextBooking ==
    \/ \E a \in BookingAlerts : Len(ctxs) < MaxBooked /\ ProcessAlert(a)
    \/ \E k \in 1..MaxCalls : PA_Diagnose(k)
    \/ \E k \in 1..MaxCalls : PA_Contact(k)
    \/ \E w \in DOMAIN active_workflows, u \in BookingUtterances :
          HandleCustomerResponse(w, u)
    \/ \E k \in 1..MaxCalls : HCR_Create(k)
    \/ \E d \in TickSteps : Tick(d)

SpecBooking == Init /\ [][NextBooking]_vars

\* A conversation held with the engagement agent alone, over every number of
\* slots the orchestrator can propose.
NextDialogue ==
    \/ \E v \in DialogueVehicles, n \in 0..MaxSlots :
          InitiateContact(VehicleOwner[v], v, n)
    \/ \E c \in DOMAIN active_conversations, u \in DialogueUtterances :
          ProcessResponse(c, u)
    \/ ProcessResponse(UnknownConversation, U_yes)
    \/ \E c \in DOMAIN active_conversations : CompleteConversation(c)

SpecDialogue == Init /\ [][NextDialogue]_vars

\* One workflow booked, and the life of its appointment afterwards.
NextAppointments ==
    \/ \E a \in BookingAlerts : Len(ctxs) < MaxCtx /\ ProcessAlert(a)
    \/ \E k \in 1..MaxCalls : PA_Diagnose(k)
    \/ \E k \in 1..MaxCalls : PA_Contact(k)
    \/ \E w \in DOMAIN active_workflows, u \in BookingUtterances :
          HandleCustomerResponse(w, u)
    \/ \E k \in 1..MaxCalls : HCR_Create(k)
    \/ \E w \in DOMAIN active_workflows : HandleFeedbackSubmission(w)
    \/ \E a \in 1..Len(appointments), st \in AppointmentStatuses :
          UpdateAppointmentStatus(a, st)
    \/ \E a \in 1..Len(appointments) : CancelAppointment(a)
    \/ \E a \in 1..Len(appointments) : RescheduleAppointment(a, DialogueSlots[1])
    \/ StoreFlip

SpecAppointments == Init /\ [][NextAppointments]_vars

\* The scheduling agent alone: searches at the clock's reading, bookings of
\* the slots a search answered.
NextSlots ==
    \/ \E u \in Urgencies, d \in JobLengths, n \in SlotCounts : FindSlots(u, d, n)
    \/ \E n \in 1..MaxSlots : CreateAppointment(n)
    \/ StoreFlip

SpecSlots == InitSlots /\ [][NextSlots]_vars

\* The feedback agent alone, over appointments the scheduling agent booked and
\* predictions the prediction service wrote.
NextFeedback ==
    \/ FindSlots("routine", 2, 1)
    \/ CreateAppointment(1)
    \/ \E v \in PredictionVehicles, t \in PredictionTimes : RecordPrediction(v, t)
    \/ \E a \in 1..MaxBooked + 1, o \in ServiceOutcomes : CollectFeedback(a, o)
    \/ StoreFlip

SpecFeedback == Init /\ [][NextFeedback]_vars

\* The rate limiter alone, under the burst of one client.
NextLimiter ==
    \/ \E c \in Clients, p \in Paths : Dispatch(c, p)
    \/ Elapse

SpecLimiter == Init /\ [][NextLimiter]_vars

\* The telemetry consumer alone, with the producers of its stream.
NextTelemetry ==
    \/ \E kind \in TelemetryKinds : TelemetryArrive(kind)
    \/ TelemetryRead
    \/ TelemetryProcess
    \/ TelemetryAck
    \/ TelemetrySleep

SpecTelemetry == Init /\ [][NextTelemetry]_vars

\* The diagnosis agent alone.
NextDiagnosis ==
    \E p \in Predictions : Diagnose(p)

SpecDiagnosis == Init /\ [][NextDiagnosis]_vars

\* The loop under a scheduler that lets every runnable step of the loop and of
\* the coroutines it awaits run: a poll that has entries to return returns
\* them.  Entries, exceptions, crashes and store outages come as they will.
FairLoop ==
    /\ SpecLoop
    /\ WF_vars(LoopRead /\ batch' # <<>>)
    /\ WF_vars(LoopDispatch)
    /\ WF_vars(LoopAck)
    /\ WF_vars(LoopSleep)
    /\ WF_vars(\E k \in 1..MaxCalls : PA_Diagnose(k))
    /\ WF_vars(\E k \in 1..MaxCalls : PA_Contact(k))

\* The same loop with a stream store that does not fail for ever: a poll that
\* has entries to return again and again does return them.
FairPoll ==
    /\ SpecLoop
    /\ SF_vars(LoopRead /\ batch' # <<>>)
    /\ WF_vars(LoopDispatch)
    /\ WF_vars(LoopAck)
    /\ WF_vars(LoopSleep)
    /\ WF_vars(\E k \in 1..MaxCalls : PA_Diagnose(k))
    /\ WF_vars(\E k \in 1..MaxCalls : PA_Contact(k))

-----------------------------------------------------------------------------
(* Properties *)

\* entries of the stream that the group has acknowledged
Acked == (1..lastDelivered) \ pending

\* the states of a context whose process_alert has not returned
InProcessAlert == {"initiated", "diagnosed"}

\* C1: an entry leaves the pending list only in the loop's acknowledgement,
\* after the process_alert call for that entry has returned with its context
\* created, registered and given a deadline; while that call is in flight, and
\* after a crash during it, the entry stays pending.
C1_AckAfterProcessAlert ==
    [][ /\ \A m \in pending \ pending' :
             /\ mpc = "ack" /\ mcall = 0 /\ batch # <<>> /\ Head(batch) = m
             /\ ctxs # <<>>
             /\ LET context == ctxs[Len(ctxs)]
                IN /\ context.alert = stream[m]
                   /\ context.state \notin InProcessAlert
                   /\ context.sla_deadline >= 0
                   /\ context.workflow_id \in DOMAIN active_workflows
                   /\ active_workflows[context.workflow_id] = Len(ctxs)
                   /\ \A k \in 1..MaxCalls : calls[k].op # "process_alert"
        /\ (mcall' # 0) => (batch' # <<>> /\ Head(batch') \in pending')
        /\ (crashes' > crashes /\ mcall # 0) => Head(batch) \in pending'
      ]_vars

\* an entry has been acknowledged, and another was in flight when the process died
C1_Witness ==
    /\ Acked # {}
    /\ crashes > 0
    /\ \E m \in pending : \E i \in 1..Len(ctxs) :
          ctxs[i].alert = stream[m] /\ ctxs[i].state \in InProcessAlert

\* C2: an entry that was delivered to the consumer and not acknowledged is
\* delivered again and acknowledged in the end, whatever interrupted its
\* processing.
C2_EventuallyRedelivered ==
    \A m \in 1..MaxMsgs : (m \in pending) ~> (m \in Acked)

\* what identifies an alert: the vehicle and the alert's own timestamp
AlertKey(alert) == <<alert.vehicle_id, alert.timestamp>>

\* C3: processing the same alert a second time books nothing more: no two
\* workflow contexts of one alert key both hold an appointment.
C3_OneAppointmentPerAlert ==
    \A i, j \in 1..Len(ctxs) :
        ( /\ AlertKey(ctxs[i].alert) = AlertKey(ctxs[j].alert)
          /\ ctxs[i].appointment_id # 0
          /\ ctxs[j].appointment_id # 0 ) => i = j

\* the edges of the workflow state machine as the specification draws it
ForwardEdges ==
    { <<"initiated", "diagnosed">>,
      <<"diagnosed", "contacting_customer">>,
      <<"contacting_customer", "scheduled">>,
      <<"contacting_customer", "customer_declined">>,
      <<"contacting_customer", "escalated">>,
      <<"scheduled", "service_completed">>,
      <<"customer_declined", "service_completed">>,
      <<"escalated", "service_completed">>,
      <<"service_completed", "feedback_collected">> }
      \cup { <<s, "failed">> : s \in {"initiated", "diagnosed", "contacting_customer"} }

\* C4: every change of a workflow's state follows an edge of the state
\* machine: never backward, never past a state that was not reached.
C4_ForwardEdgesOnly ==
    [][ \A i \in 1..Len(ctxs) :
          ctxs'[i].state # ctxs[i].state
            => <<ctxs[i].state, ctxs'[i].state>> \in ForwardEdges ]_vars

\* C5: a workflow whose state is failed keeps that state.
C5_FailedIsAbsorbing ==
    [][ \A i \in 1..Len(ctxs) :
          ctxs[i].state = "failed" => ctxs'[i].state = "failed" ]_vars

\* the lookup of process_alert finds no customer or vehicle, or the diagnosis
\* raises on the alert
LookupOrDiagnosisFails(context) ==
    \/ ~storeUp
    \/ context.alert.vehicle_id \notin DOMAIN VehicleOwner
    \/ context.alert.shape = "bad_probability"

\* C6: a step of process_alert either completes, or it ends the call with the
\* context failed, one error appended, retry_count as it was and nothing of
\* the later steps done (no slots, no conversation); a failing lookup or
\* diagnosis always ends it so; and a context in initiated or diagnosed always
\* has its process_alert call still in flight.
C6_FailureEndsInFailed ==
    [][ /\ \A k \in 1..MaxCalls :
             (calls[k].op = "process_alert" /\ calls'[k] # calls[k]) =>
               LET i == calls[k].ctx
                   before == ctxs[i]
                   after == ctxs'[i]
                   Completes ==
                       \/ /\ calls[k].pc = "lookup"
                          /\ calls'[k] = [calls[k] EXCEPT !.pc = "slots"]
                          /\ after.state = "diagnosed"
                       \/ /\ calls[k].pc = "slots"
                          /\ calls'[k] = IdleCall
                          /\ after.state = "contacting_customer"
                   Fails ==
                       /\ calls'[k] = IdleCall
                       /\ after.state = "failed"
                       /\ Len(after.errors) = Len(before.errors) + 1
                       /\ after.retry_count = before.retry_count
                       /\ after.proposed_slots = before.proposed_slots
                       /\ after.conversation_id = before.conversation_id
                       /\ after.appointment_id = before.appointment_id
                       /\ convs' = convs
                       /\ Len(ctxs') = Len(ctxs)
               IN IF calls[k].pc = "lookup" /\ LookupOrDiagnosisFails(before)
                  THEN Fails
                  ELSE Completes \/ Fails
        /\ \A i \in 1..Len(ctxs') :
             ctxs'[i].state \in InProcessAlert =>
               \E k \in 1..MaxCalls :
                   calls'[k].op = "process_alert" /\ calls'[k].ctx = i
      ]_vars

\* process_alert has returned for a context that passed the diagnosis and
\* failed in the slot search or the contact
C6_Witness ==
    \E i \in 1..Len(ctxs) :
        /\ ctxs[i].state = "failed"
        /\ ctxs[i].diagnosis # NoDiagnosis
        /\ ctxs[i].errors = <<"slots">>
        /\ ctxs[i].retry_count = 0
        /\ ctxs[i].conversation_id = NoId
        /\ \A k \in 1..MaxCalls : calls[k].op = "idle"

\* the states in which a workflow has come to an end that its users can see
Ended ==
    {"scheduled", "customer_declined", "escalated", "service_completed",
     "feedback_collected", "failed"}

\* C7: for every acknowledged entry there is in the end a workflow of its
\* alert that is completed, scheduled, declined, escalated or failed.
C7_AckedAlertEnds ==
    \A m \in 1..MaxMsgs :
        (m \in Acked) ~> (\E i \in 1..Len(ctxs) :
                             /\ m <= Len(stream)
                             /\ ctxs[i].alert = stream[m]
                             /\ ctxs[i].state \in Ended)

\* C8: the bookings of the center that overlap the interval of any booking,
\* that booking included, never outnumber the center's capacity.
C8_NoOverbooking ==
    \A a \in 1..Len(appointments) :
        IsBooked(appointments[a]) =>
            count_overlapping_appointments(
                appointments[a].appointment_time,
                appointments[a].appointment_time + appointments[a].estimated_duration_hours,
                SelectSeq(appointments,
                          LAMBDA r : /\ IsBooked(r)
                                     /\ r.service_center_id = appointments[a].service_center_id))
              <= CenterCapacity

\* C9: no workflow context has more than one appointment that is not
\* cancelled, whatever handle_customer_response calls it received.
C9_OneConversationOneAppointment ==
    \A i \in 1..Len(ctxs) :
        Cardinality({a \in 1..Len(appointments) :
                       /\ appointments[a].created_for = i
                       /\ appointments[a].status # "cancelled"}) <= 1

\* C10: the deadline of every context is the clock reading of its creation
\* plus the SLA hours of the urgency that its alert's severity maps to.
C10_DeadlineFromSeverity ==
    \A i \in 1..Len(ctxs) :
        ctxs[i].sla_deadline
          = ctxs[i].workflow_id[2] + sla_constraints[determine_urgency(ctxs[i].alert.severity)]

\* C11: the deadline a context got from process_alert is never changed by a
\* later step on it.
C11_DeadlineNeverRecomputed ==
    [][ \A i \in 1..Len(ctxs) : ctxs'[i].sla_deadline = ctxs[i].sla_deadline ]_vars

\* a workflow was scheduled and completed at a later clock reading than the
\* one its deadline was computed at
C11_Witness ==
    \E i \in 1..Len(ctxs) :
        /\ ctxs[i].state = "service_completed"
        /\ ctxs[i].appointment_id # 0
        /\ now > ctxs[i].workflow_id[2]
        /\ ctxs[i].sla_deadline = ctxs[i].workflow_id[2] + SlaHours(ctxs[i].alert)

\* scheduled or confirmed rows of a center, whenever they begin
BookedAt(rows, service_center_id) ==
    SelectSeq(rows, LAMBDA r : IsBooked(r) /\ r.service_center_id = service_center_id)

\* C12: when slots are proposed to a context, each of them overlaps fewer
\* bookings of its center than the center's capacity.
C12_ProposedSlotsHaveRoom ==
    [][ \A i \in 1..Len(ctxs) :
          ctxs'[i].proposed_slots # ctxs[i].proposed_slots =>
            \A n \in 1..Len(ctxs'[i].proposed_slots) :
                LET slot == ctxs'[i].proposed_slots[n]
                IN count_overlapping_appointments(
                       slot.start, slot.start + slot.dur,
                       BookedAt(appointments, slot.center)) < CenterCapacity ]_vars


\* C13: process_response never raises for a validation problem: whatever the
\* customer says and however many slots (0 to 5) were proposed, no call of
\* process_response ends in an exception.
C13_ValidationNeverRaises ==
    \A n \in 1..Len(transcript) : transcript[n].action # "raise"


\* The keyword lists of which some keyword occurs in the text, lower-cased.
KeywordLists ==
    [human |-> human_patterns, accept |-> acceptance_patterns,
     decline |-> decline_patterns, alternative |-> alternative_patterns,
     info |-> info_patterns]

Mentions ==
    [u \in AllUtterances |->
        {l \in DOMAIN KeywordLists : ContainsAny(Lower(u), KeywordLists[l])}]

\* C14: the class given to an input is that of the first keyword list, in the
\* order human, accept, decline, alternative, info, of which the input
\* contains a keyword, and UNCLEAR when it contains none; an input with both a
\* decline keyword and a human keyword is REQUEST_HUMAN.
C14_ClassificationPriority ==
    \A n \in 1..Len(transcript) :
        LET e == transcript[n]
            found == Mentions[e.user_input]
        IN e.response_type # "none" =>
             e.response_type =
                IF "human" \in found THEN "request_human"
                ELSE IF "accept" \in found THEN "accept"
                ELSE IF "decline" \in found THEN "decline"
                ELSE IF "alternative" \in found THEN "request_alternative"
                ELSE IF "info" \in found THEN "request_info"
                ELSE "unclear"

\* an input with a decline keyword and a human keyword has been classified,
\* and so has an input of every other class
C14_Witness ==
    /\ \E n \in 1..Len(transcript) :
          /\ {"decline", "human"} \subseteq Mentions[transcript[n].user_input]
          /\ transcript[n].response_type = "request_human"
    /\ \E n \in 1..Len(transcript) : transcript[n].response_type = "decline"
    /\ \E n \in 1..Len(transcript) : transcript[n].response_type = "unclear"
    /\ \E n \in 1..Len(transcript) : transcript[n].response_type = "request_info"


\* The entries of the transcript that belong to a conversation.
TurnsOf(log, conversation_id) ==
    SelectSeq(log, LAMBDA e : e.conversation_id = conversation_id)

\* The step is a call of process_response on a registered conversation.
Answered ==
    /\ Len(transcript') = Len(transcript) + 1
    /\ transcript'[Len(transcript')].conversation_id \in DOMAIN active_conversations

\* C15: every input adds one to turn_count.  An UNCLEAR input that is the
\* first, second or third turn of a conversation returns clarify and leaves
\* the conversation state as it was (so turn_count is 3 after three of them
\* from the start); an UNCLEAR input that is the fourth turn sets the state to
\* ESCALATED and returns escalate_to_human, whatever the state was.
C15_FourthUnclearEscalates ==
    [][ Answered =>
          LET e == transcript'[Len(transcript')]
              j == active_conversations[e.conversation_id]
              turns == convs'[j].turn_count
          IN e.response_type = "unclear" =>
               /\ turns = convs[j].turn_count + 1
               /\ turns <= 3 => /\ e.action = "clarify"
                                /\ convs'[j].state = convs[j].state
               /\ turns = 4 => /\ e.action = "escalate_to_human"
                               /\ convs'[j].state = "escalated" ]_vars

\* four times "asdf" from the greeting on: three re-prompts, then escalation
C15_Witness ==
    \E c \in DOMAIN active_conversations :
        LET turns == TurnsOf(transcript, c) IN
        /\ Len(turns) = 4
        /\ \A n \in 1..4 : turns[n].user_input = U_asdf /\ turns[n].response_type = "unclear"
        /\ \A n \in 1..3 : turns[n].action = "clarify"
        /\ turns[4].action = "escalate_to_human"
        /\ convs[active_conversations[c]].state = "escalated"
        /\ convs[active_conversations[c]].turn_count = 4


\* C16: in PROPOSING_APPOINTMENT an ACCEPT input either moves the conversation
\* to CONFIRMING_APPOINTMENT with one of the proposed slots selected (the
\* first one when the customer just says yes) or leaves it in
\* PROPOSING_APPOINTMENT with a re-prompt; DECLINE moves it to DECLINED;
\* REQUEST_ALTERNATIVE leaves the state and the proposed slots as they were.
C16_ProposingTransitions ==
    [][ Answered =>
          LET e == transcript'[Len(transcript')]
              j == active_conversations[e.conversation_id]
              before == convs[j]
              after == convs'[j]
          IN before.state = "proposing_appointment" =>
               /\ e.response_type = "accept" =>
                    \/ /\ after.state = "confirming_appointment"
                       /\ e.action = "confirm_appointment"
                       /\ after.selected_slot \in SeqToSet(before.proposed_slots)
                       /\ e.user_input = U_yes => after.selected_slot = before.proposed_slots[1]
                    \/ /\ after.state = "proposing_appointment"
                       /\ e.action = "clarify_slot"
                       /\ e.user_input = U_yes => before.proposed_slots = <<>>
               /\ e.response_type = "decline" => after.state = "declined"
               /\ e.response_type = "request_alternative" =>
                    /\ after.state = "proposing_appointment"
                    /\ after.proposed_slots = before.proposed_slots ]_vars


C19_MissingAppointmentDoesNotAdvance ==
    \A i \in 1..Len(ctxs) :
        ctxs[i].state \in {"service_completed", "feedback_collected"} =>
            ctxs[i].appointment_id \in 1..Len(appointments)


\* C20: once the operation that ended a workflow has returned, the registry
\* of active workflows no longer holds it: no registered context is in
\* CUSTOMER_DECLINED, ESCALATED, FAILED or FEEDBACK_COLLECTED while no
\* operation is running on it.
C20_TerminalWorkflowsLeaveRegistry ==
    \A w \in DOMAIN active_workflows :
        LET i == active_workflows[w] IN
        (\A k \in 1..MaxCalls : calls[k].op = "idle" \/ calls[k].ctx # i) =>
            ctxs[i].state \notin
                {"customer_declined", "escalated", "failed", "feedback_collected"}


\* C21: a conversation that has ended is no longer registered: no entry of
\* active_conversations is a conversation in DECLINED, ESCALATED, confirmed
\* (CONFIRMING_APPOINTMENT) or COMPLETED, so that later calls for its id find
\* no conversation.
C21_EndedConversationsDiscarded ==
    \A c \in DOMAIN active_conversations :
        convs[active_conversations[c]].state \notin
            {"declined", "escalated", "confirming_appointment", "completed"}


\* C22: every change of a workflow's state appends exactly one audit row, for
\* that workflow and its new state, also when the store refuses the write or a
\* later call of the operation raises; the rows already written stay as they
\* are.
C22_OneAuditRowPerTransition ==
    [][ \A i \in 1..Len(ctxs) :
          ctxs'[i].state # ctxs[i].state =>
             /\ Len(audit') = Len(audit) + 1
             /\ SubSeq(audit', 1, Len(audit)) = audit
             /\ audit'[Len(audit')].workflow_id = ctxs'[i].workflow_id
             /\ audit'[Len(audit')].state = ctxs'[i].state ]_vars


\* C23: operations on one workflow take effect one after the other, so a
\* workflow is never SCHEDULED while its conversation is ESCALATED or
\* DECLINED: in every sequential order the later of a booking and an
\* escalation (or decline) leaves both records in its own outcome.
C23_ScheduledConversationNotEscalated ==
    \A i \in 1..Len(ctxs) :
        /\ ctxs[i].state = "scheduled"
        /\ ctxs[i].conversation_id \in DOMAIN active_conversations
        => convs[active_conversations[ctxs[i].conversation_id]].state
              \notin {"escalated", "declined"}


\* C24: a stop of the orchestrator's loop takes effect between iterations
\* only: the loop ends where it would poll next (or in its backoff), with no
\* batch under way and no process_alert in flight.
C24_StopBetweenIterations ==
    [][ mpc' = "stopped" /\ mpc # "stopped" =>
          /\ mpc \in {"read", "sleep"}
          /\ mcall = 0
          /\ \A k \in 1..MaxCalls : calls[k].op # "process_alert" ]_vars


\* C25: an entry whose processing raises does not block the stream: as long
\* as the orchestrator keeps running, every well-formed entry of the stream
\* is in the end handed to process_alert.
C25_PoisonEntryDoesNotBlock ==
    \A m \in 1..MaxMsgs :
        [](crashes = 0) =>
            ((m <= Len(stream) /\ stream[m].shape # "no_vehicle_id")
                ~> (\E i \in 1..Len(ctxs) : m <= Len(stream) /\ ctxs[i].alert = stream[m]))


\* C26: a workflow is DIAGNOSED during at most one interval and its diagnosis
\* is computed once: a context enters DIAGNOSED only while it has no diagnosis
\* and receives its diagnosis in that step, the diagnosis step never runs on a
\* context that has one, and a diagnosis once stored is never replaced.
C26_DiagnosedOnce ==
    [][ /\ \A i \in 1..Len(ctxs) :
             /\ ctxs'[i].state = "diagnosed" /\ ctxs[i].state # "diagnosed" =>
                   /\ ctxs[i].diagnosis = NoDiagnosis
                   /\ ctxs'[i].diagnosis # NoDiagnosis
             /\ ctxs[i].diagnosis # NoDiagnosis => ctxs'[i].diagnosis = ctxs[i].diagnosis
        /\ \A k \in 1..MaxCalls :
             PA_Diagnose(k) /\ ctxs'[calls[k].ctx].state = "diagnosed" =>
                ctxs[calls[k].ctx].diagnosis = NoDiagnosis ]_vars

\* a workflow that was diagnosed, then contacted, scheduled and completed
C26_Witness ==
    \E i \in 1..Len(ctxs) :
        /\ ctxs[i].state = "service_completed"
        /\ ctxs[i].diagnosis # NoDiagnosis
        /\ ctxs[i].appointment_id # 0
        /\ \E n \in 1..Len(audit) : /\ audit[n].workflow_id = ctxs[i].workflow_id
                                    /\ audit[n].action = "diagnosis_completed"


\* C27: an appointment row is never deleted, and a cancelled or completed
\* appointment keeps its status: no operation takes it back to an earlier
\* status, cancels a completed one or completes a cancelled one.
C27_FinalStatusKept ==
    [][ /\ Len(appointments') >= Len(appointments)
        /\ \A a \in 1..Len(appointments) :
              appointments[a].status \in {"cancelled", "completed"} =>
                 appointments'[a].status = appointments[a].status ]_vars

\* C28: every slot find_available_slots returns starts no earlier than the
\* search time and no later than the end of the window of 1, 3, 7 or 14 days
\* that the urgency gives, and falls on a Saturday or Sunday only when the
\* urgency is immediate.
C28_SlotsInsideWindow ==
    \A n \in 1..Len(offered.slots) :
        LET slot == offered.slots[n] IN
        /\ slot.start >= offered.t
        /\ slot.start <= offered.t + 24 * WindowDays(offered.urgency)
        /\ Weekday(slot.start) \notin working_days => offered.urgency = "immediate"

\* The business hours inside the window of a search made at t: the starts of
\* the slots a search for that urgency may answer.
WindowHours(t, urgency) ==
    {h \in t..(t + 24 * WindowDays(urgency)) :
        /\ h % 24 >= BusinessStart /\ h % 24 < BusinessEnd
        /\ Weekday(h) \in working_days \/ urgency = "immediate"}

\* The center has no room for a job of the given length started at h.
AtCapacity(h, downtime) ==
    has_conflict(h, h + downtime, SelectSeq(appointments, IsBooked), CenterCapacity)

\* C29: find_available_slots answers at most max_slots slots, in chronological
\* order from the earliest hour of the window that has room; each starts on a
\* whole business hour from 8 to 17 and lasts the diagnosis's downtime; when
\* every business hour of the window is at capacity the answer is the empty
\* list.
C29_EarliestSlotsFirst ==
    [][ offered' # offered =>
          LET slots == offered'.slots
              u == offered'.urgency
              d == offered'.downtime
          IN /\ Len(slots) <= offered'.max_slots
             /\ \A n \in 1..Len(slots) :
                   /\ slots[n].start % 24 >= BusinessStart
                   /\ slots[n].start % 24 < BusinessEnd
                   /\ slots[n].dur = d
                   /\ n > 1 => slots[n - 1].start < slots[n].start
                   /\ \A h \in WindowHours(now, u) :
                         h < slots[n].start /\ ~AtCapacity(h, d) =>
                            \E k \in 1..n : slots[k].start = h
             /\ (\A h \in WindowHours(now, u) : AtCapacity(h, d)) => slots = <<>> ]_vars

\* The components of a report, primary first.
ComponentsOf(diagnosis) ==
    IF diagnosis.primary_component = NoComponent
    THEN <<>>
    ELSE <<diagnosis.primary_component>> \o diagnosis.related_components

\* C30: for an alert of severity high or critical the report has two or three
\* components, primary first, in order of non-increasing probability, the
\* component of rank r (from 0) having the alert's failure probability times
\* (1 - 0.2 r); for severity low or medium it has exactly one component.
C30_ComponentsRanked ==
    LET components == ComponentsOf(report.diagnosis)
        p == report.prediction.failure_probability
    IN /\ report.prediction.severity \in {"high", "critical"} =>
            /\ Len(components) \in 2..3
            /\ \A n \in 1..Len(components) :
                  /\ components[n].failure_probability = p * (10 - 2 * (n - 1))
                  /\ n > 1 => components[n - 1].failure_probability
                                 >= components[n].failure_probability
       /\ report.prediction.severity \in {"low", "medium"} => Len(components) = 1

C30_Witness ==
    /\ report.prediction.severity = "high"
    /\ report.prediction.failure_probability = 85
    /\ report.diagnosis.primary_component.failure_probability = 850
    /\ Len(report.diagnosis.related_components) = 2
    /\ report.diagnosis.related_components[2].failure_probability = 510

\* The category table in the order it is searched: category, the word looked
\* for in the explanation, the sensor looked for in the feature importance.
CategoryOrder ==
    << <<"engine_overheating", "temperature", "engine_temperature">>,
       <<"low_oil_pressure", "oil", "oil_pressure">>,
       <<"high_vibration", "vibration", "vibration_level">>,
       <<"battery_degradation", "battery", "battery_voltage">>,
       <<"fuel_system", "fuel", "no_sensor">> >>

\* The rows of the category table a prediction matches.
MatchingRows(prediction) ==
    {n \in 1..Len(CategoryOrder) :
        \/ CategoryOrder[n][2] \in prediction.explanation
        \/ CategoryOrder[n][3] \in prediction.feature_importance}

\* C31: the report's issue_category is that of the first row of the category
\* table (engine overheating, low oil pressure, high vibration, battery
\* degradation, fuel system) the prediction matches, and engine_overheating
\* when it matches none; its urgency is immediate for critical, urgent for
\* high, soon for medium and routine otherwise.
C31_FirstMatchAndUrgency ==
    report # NoReport =>
        LET rows == MatchingRows(report.prediction)
            severity == report.prediction.severity
        IN /\ rows = {} => report.diagnosis.issue_category = "engine_overheating"
           /\ \A n \in rows :
                 (\A k \in rows : n <= k) =>
                     report.diagnosis.issue_category = CategoryOrder[n][1]
           /\ severity = "critical" => report.diagnosis.urgency = "immediate"
           /\ severity = "high" => report.diagnosis.urgency = "urgent"
           /\ severity = "medium" => report.diagnosis.urgency = "soon"
           /\ severity \notin {"critical", "high", "medium"} =>
                 report.diagnosis.urgency = "routine"

C31_Witness ==
    /\ report.prediction.severity = "critical"
    /\ report.prediction.explanation = {}
    /\ report.prediction.feature_importance = {}
    /\ report.diagnosis.issue_category = "engine_overheating"
    /\ report.diagnosis.urgency = "immediate"

C33_WorkflowIdsUnique ==
    /\ \A i, j \in 1..Len(ctxs) : i # j => ctxs[i].workflow_id # ctxs[j].workflow_id
    /\ \A i \in 1..Len(ctxs) :
          ctxs[i].workflow_id \in DOMAIN active_workflows =>
             active_workflows[ctxs[i].workflow_id] = i

\* C34: a client that has sent its burst of 150 requests has received at
\* least one 429.
C34_BurstIsLimited ==
    Requests = BurstLength => \E path \in Paths : responses[path].limited >= 1

\* A handle_customer_response call for context i is in flight.
Responding(i) ==
    \E k \in 1..MaxCalls : calls[k].op = "handle_customer_response" /\ calls[k].ctx = i

\* C35: when a workflow's conversation is in CONFIRMING_APPOINTMENT and no
\* handle_customer_response call for the workflow is in flight, the workflow
\* holds a created appointment or is FAILED with the cause recorded.
C35_ConfirmedMeansBookedOrFailed ==
    \A i \in 1..Len(ctxs) :
        LET c == ctxs[i].conversation_id IN
        (/\ c \in DOMAIN active_conversations
         /\ convs[active_conversations[c]].state = "confirming_appointment"
         /\ ~Responding(i))
        => \/ /\ ctxs[i].appointment_id \in 1..Len(appointments)
              /\ ctxs[i].state \notin {"customer_contacted", "failed"}
           \/ /\ ctxs[i].state = "failed"
              /\ ctxs[i].errors # <<>>

FinalConversationStates == {"declined", "escalated", "confirming_appointment"}

\* C36: a process_response call on a conversation that is DECLINED, ESCALATED
\* or CONFIRMING_APPOINTMENT changes neither its state nor its selected_slot
\* and returns none of the actions confirm_appointment, acknowledge_decline,
\* escalate_to_human.
C36_FinalStatesAreFinal ==
    [][ \A c \in DOMAIN active_conversations :
          LET j == active_conversations[c] IN
          (/\ Len(transcript') = Len(transcript) + 1
           /\ transcript'[Len(transcript')].conversation_id = c
           /\ convs[j].state \in FinalConversationStates)
          => /\ convs'[j].state = convs[j].state
             /\ convs'[j].selected_slot = convs[j].selected_slot
             /\ transcript'[Len(transcript')].action \notin
                   {"confirm_appointment", "acknowledge_decline", "escalate_to_human"} ]_vars

\* The UNCLEAR responses a conversation has given.
UnclearTurns(log, conversation_id) ==
    Cardinality({n \in 1..Len(log) : /\ log[n].conversation_id = conversation_id
                                     /\ log[n].response_type = "unclear"})

\* C37: an unclear response is answered by an escalation only when it is the
\* conversation's fourth or later unclear response; responses of any other
\* class do not count.
C37_OnlyUnclearTurnsCount ==
    [][ Answered =>
          LET e == transcript'[Len(transcript')]
          IN e.response_type = "unclear" /\ e.action = "escalate_to_human" =>
                UnclearTurns(transcript', e.conversation_id) > 3 ]_vars

====
